---------------------------- MODULE Spec2Model ----------------------------
(***************************************************************************)
(* Model of visa_photo_processor.py: main(), VisaPhotoProcessor and its    *)
(* pipeline process_photo (detect face, remove background, crop and        *)
(* resize, white background, enhance, save, 4x6 print sheet).              *)
(*                                                                         *)
(* Pixel buffers are abstracted to their size and origin; all geometry is  *)
(* kept.  The float arithmetic of crop_and_resize is modelled in exact     *)
(* rationals: a non-integer quantity is an integer count of 1/Q pixel,     *)
(* where Q is a common multiple of every denominator the code introduces   *)
(* (halves, 0.3 and 1.3 in tenths, 1/0.70 in sevenths, 413/531 = 7/9).     *)
(***************************************************************************)
EXTENDS Integers, Sequences, FiniteSets, TLC

VARIABLES
    pc,          \* position in main() / process_photo()
    args,        \* the parsed command line and whether the input file exists
    output_path, \* args.output after the default has been filled in
    size,        \* image.size of the current image (<<>> before Image.open)
    srcSize,     \* size of the image as loaded (width, height of crop_and_resize)
    face_box,    \* <<>> for None, <<x, y, w, h>> otherwise
    loc,         \* locals of the face branch of crop_and_resize, in 1/Q pixel
    crop_box,    \* <<>> until computed, then <<x0, y0, x1, y1>>
    sheet,       \* what create_4x6_print pasted and drew
    fs,          \* output files: path -> what was saved there
    executed,    \* the stages entered so far, in order
    error,       \* "none" or the exception that left the try block
    raisedAt,    \* the stage that raised it
    bgFailed,    \* rembg failed inside remove_background (caught there)
    success,     \* process_photo's return value: "none", "True", "False"
    exitCode     \* -1 while the process runs, then its exit status

vars == <<pc, args, output_path, size, srcSize, face_box, loc, crop_box, sheet,
          fs, executed, error, raisedAt, bgFailed, success, exitCode>>

---------------------------------------------------------------------------
\* Bounds of the model.

\* Source images of every size 1..MaxDim x 1..MaxDim are loaded, with every
\* face box inside them.
MaxDim == 5

---------------------------------------------------------------------------
\* VisaPhotoProcessor.__init__

target_width_mm == 35
target_height_mm == 45
dpi == 300

\* int((mm / 25.4) * dpi)
MmToPx(mm) == (mm * dpi * 10) \div 254

target_width_px == MmToPx(target_width_mm)
target_height_px == MmToPx(target_height_mm)

print_width_px == 6 * dpi
print_height_px == 4 * dpi

---------------------------------------------------------------------------
\* Arithmetic helpers.

Q == 2 * 5 * 7 * 9

Min(a, b) == IF a <= b THEN a ELSE b
Max(a, b) == IF a >= b THEN a ELSE b

\* Python's int() of a float: truncation toward zero.
IntOf(q) == IF q >= 0 THEN q \div Q ELSE -((-q) \div Q)

\* max(0, min(v, hi))
Clamp(v, hi) == Max(0, Min(v, hi))


---------------------------------------------------------------------------
\* Paths are sequences of one-character strings.

DotJpg == <<".", "j", "p", "g">>
PrintSuffix == <<"_", "4", "x", "6", "_", "p", "r", "i", "n", "t">> \o DotJpg
OutputDir == <<"o", "u", "t", "p", "u", "t", "/">>
VisaSuffix == <<"_", "v", "i", "s", "a">> \o DotJpg

\* The last index of character c in s, 0 when there is none.
LastIndex(s, c) ==
    LET I == {i \in 1..Len(s) : s[i] = c}
    IN  IF I = {} THEN 0 ELSE CHOOSE i \in I : \A j \in I : j <= i

\* os.path.basename
Basename(s) == SubSeq(s, LastIndex(s, "/") + 1, Len(s))

\* os.path.splitext(name)[0]: cut at the last dot, unless it leads the name.
SplitextRoot(s) ==
    LET d == LastIndex(s, ".")
    IN  IF d > 1 THEN SubSeq(s, 1, d - 1) ELSE s

\* str.replace(old, new): every non-overlapping occurrence, left to right.
RECURSIVE Replace(_, _, _)
Replace(s, old, new) ==
    IF Len(s) < Len(old) THEN s
    ELSE IF SubSeq(s, 1, Len(old)) = old
         THEN new \o Replace(SubSeq(s, Len(old) + 1, Len(s)), old, new)
         ELSE <<Head(s)>> \o Replace(Tail(s), old, new)

\* main: f"output/{base_name}_visa.jpg"
DefaultOutput(input) == OutputDir \o SplitextRoot(Basename(input)) \o VisaSuffix

\* process_photo: output_path.replace('.jpg', '_4x6_print.jpg')
PrintOutputPath(path) == Replace(path, DotJpg, PrintSuffix)

\* Image.save(path, ...): the file at path now holds content.
Saved(files, path, content) ==
    [p \in (DOMAIN files) \cup {path} |-> IF p = path THEN content ELSE files[p]]

---------------------------------------------------------------------------
\* crop_and_resize, face branch.  fb = <<x, y, w, h>>; results in 1/Q pixel.

\* A variant that centers on the exact half w / 2.
face_center_x_exact(fb) == Q * fb[1] + (Q * fb[3]) \div 2

\* x + w // 2
face_center_x(fb) == Q * (fb[1] + fb[3] \div 2)

\* y + h // 2
face_center_y(fb) == Q * (fb[2] + fb[4] \div 2)

\* h * 1.3
estimated_head_height(fb) == (fb[4] * 13 * Q) \div 10

\* estimated_head_height / head_to_photo_ratio, with head_to_photo_ratio = 0.70
photo_height(fb) == (estimated_head_height(fb) * 100) \div 70

\* photo_height * target_aspect_ratio
photo_width(fb) == (photo_height(fb) * target_width_px) \div target_height_px

\* h * 0.3
face_offset_y(fb) == (fb[4] * 3 * Q) \div 10

crop_center_y(fb) == face_center_y(fb) - face_offset_y(fb)
crop_center_x(fb) == face_center_x(fb)

\* The locals of the face branch when line 116 is reached.
FaceLocals(W, H, fb) ==
    LET ph == photo_height(fb)
        pw == photo_width(fb)
        cy == crop_center_y(fb) - ph \div 2
        cx == crop_center_x(fb) - pw \div 2
    IN  [ set |-> TRUE,
          estimated_head_height |-> estimated_head_height(fb),
          photo_height |-> ph,
          photo_width |-> pw,
          crop_center_x |-> crop_center_x(fb),
          crop_center_y |-> crop_center_y(fb),
          crop_x |-> Clamp(cx, Q * W - pw),
          crop_y |-> Clamp(cy, Q * H - ph) ]

NoLocals ==
    [ set |-> FALSE, estimated_head_height |-> 0, photo_height |-> 0,
      photo_width |-> 0, crop_center_x |-> 0, crop_center_y |-> 0,
      crop_x |-> 0, crop_y |-> 0 ]

\* if photo_width > width or photo_height > height
Oversized(W, H, l) == l.photo_width > Q * W \/ l.photo_height > Q * H

\* (int(crop_x), int(crop_y), int(crop_x + photo_width), int(crop_y + photo_height))
FaceCropBox(l) ==
    << IntOf(l.crop_x), IntOf(l.crop_y),
       IntOf(l.crop_x + l.photo_width), IntOf(l.crop_y + l.photo_height) >>

---------------------------------------------------------------------------
\* crop_and_resize, center branch (face_box is None).

\* A variant that compares against the inverted ratio.
WiderThanTargetInverted(W, H) == W * target_width_px > H * target_height_px

\* width / height > target_aspect_ratio
WiderThanTarget(W, H) == W * target_height_px > H * target_width_px

CenterCropBox(W, H) ==
    IF WiderThanTarget(W, H)
    THEN LET new_width == (H * target_width_px) \div target_height_px
             crop_x == (W - new_width) \div 2
         IN  <<crop_x, 0, crop_x + new_width, H>>
    ELSE LET new_height == (W * target_height_px) \div target_width_px
             crop_y == (H - new_height) \div 4
         IN  <<0, crop_y, W, crop_y + new_height>>

\* cropped.size of image.crop(crop_box)
CropWidth(box) == box[3] - box[1]
CropHeight(box) == box[4] - box[2]

---------------------------------------------------------------------------
\* create_4x6_print.

photos_per_row == 3
photos_per_col == 2
photo_margin == 10
border_thickness == 1

cell_width == target_width_px + 2 * photo_margin
cell_height == target_height_px + 2 * photo_margin

total_grid_width == photos_per_row * cell_width
total_grid_height == photos_per_col * cell_height

start_x == (print_width_px - total_grid_width) \div 2
start_y == (print_height_px - total_grid_height) \div 2

\* A variant that steps the column position by the row index.
cell_x_by_row(row, col) == start_x + row * cell_width

cell_x(row, col) == start_x + col * cell_width
cell_y(row, col) == start_y + row * cell_height

photo_x(row, col) == cell_x(row, col) + photo_margin
photo_y(row, col) == cell_y(row, col) + photo_margin

\* The (row, col) of the i-th iteration of the nested loops, rows outermost.
RowOf(i) == (i - 1) \div photos_per_row
ColOf(i) == (i - 1) % photos_per_row

\* print_image.paste(visa_photo, (photo_x, photo_y)): the pasted image covers the
\* pixel columns x .. x + w - 1 and rows y .. y + h - 1, w x h its own size.
Pasted(row, col, photoSize) ==
    [ row |-> row, col |-> col,
      x |-> photo_x(row, col), y |-> photo_y(row, col),
      w |-> photoSize[1], h |-> photoSize[2] ]

\* draw.rectangle([x0, y0, x1, y1], outline=..., width=1): the corner coordinates
\* are inclusive; the outline is the pixel columns x0 and x1 and the rows y0 and y1.
BorderRect(row, col) ==
    [ row |-> row, col |-> col,
      x0 |-> photo_x(row, col) - border_thickness,
      y0 |-> photo_y(row, col) - border_thickness,
      x1 |-> photo_x(row, col) + target_width_px + border_thickness,
      y1 |-> photo_y(row, col) + target_height_px + border_thickness ]

Create4x6Print(photoSize) ==
    LET n == photos_per_col * photos_per_row
    IN  [ built |-> TRUE,
          photos |-> [i \in 1..n |-> Pasted(RowOf(i), ColOf(i), photoSize)],
          borders |-> [i \in 1..n |-> BorderRect(RowOf(i), ColOf(i))] ]

NoSheet == [built |-> FALSE, photos |-> <<>>, borders |-> <<>>]

---------------------------------------------------------------------------
\* The inputs: command lines, source images and what the face detector finds.

InputPaths ==
    { <<"p", ".", "j", "p", "g">>, <<"d", "/", "q", ".", "p", "n", "g">> }

\* --output: <<>> is None (not given).
OutputArgs ==
    { <<>>, <<"o", ".", "j", "p", "g">>, <<"o", ".", "p", "n", "g">> }

\* The scenario images of the specification, with the face found in each.
ScenarioFaces ==
    [ s \in { <<1000, 1200>>, <<300, 300>>, <<2000, 1000>>, <<1000, 2000>> } |->
        CASE s = <<1000, 1200>> -> { <<400, 300, 200, 250>>, <<400, 300, 201, 251>> }
          [] s = <<300, 300>> -> { <<50, 50, 200, 200>> }
          [] OTHER -> {} ]

SmallSizes == (1..MaxDim) \X (1..MaxDim)

ImageSizes == SmallSizes \cup DOMAIN ScenarioFaces

\* Every box <<x, y, w, h>> with w, h > 0 that lies inside a W x H image.
BoxesInside(W, H) ==
    { <<x, y, w, h>> \in (0..(W - 1)) \X (0..(H - 1)) \X (1..W) \X (1..H) :
        x + w <= W /\ y + h <= H }

\* detect_face returns the largest face found, or None (<<>>).
DetectableFaces(s) ==
    {<<>>} \cup (IF s \in SmallSizes THEN BoxesInside(s[1], s[2]) ELSE ScenarioFaces[s])

---------------------------------------------------------------------------
\* The stages of process_photo, in program order.

Stages ==
    << "open", "detect_face", "remove_background", "crop_and_resize",
       "add_white_background", "enhance_image", "save_photo",
       "create_4x6_print", "save_print" >>

\* Whether the stage is run at all under the given flags.
Runs(stage, a) ==
    CASE stage = "remove_background" -> ~a.no_bg_removal
      [] stage \in {"create_4x6_print", "save_print"} -> ~a.no_print
      [] OTHER -> TRUE

\* The position after `stage` completes: the next stage that runs, or the return.
RECURSIVE NextFrom(_, _)
NextFrom(i, a) ==
    IF i > Len(Stages) THEN "return"
    ELSE IF Runs(Stages[i], a) THEN Stages[i] ELSE NextFrom(i + 1, a)

IndexOf(stage) == CHOOSE i \in 1..Len(Stages) : Stages[i] = stage

After(stage, a) == NextFrom(IndexOf(stage) + 1, a)

\* A variant in which the exception is swallowed and the pipeline goes on.
AfterRaiseContinues(stage, a) == After(stage, a)

\* except Exception as e: print(...); return False
AfterRaise(stage, a) == "returned"

\* A variant that never calls sys.exit(1).
ExitCodeAlwaysZero(ok) == 0

\* main: sys.exit(1) unless process_photo returned True.
ExitCodeOf(ok) == IF ok = "True" THEN 0 ELSE 1

---------------------------------------------------------------------------

Init ==
    /\ pc = "main"
    /\ args \in [ input : InputPaths, input_exists : BOOLEAN, output : OutputArgs,
                  no_bg_removal : BOOLEAN, no_print : BOOLEAN ]
    /\ output_path = <<>>
    /\ size = <<>>
    /\ srcSize = <<>>
    /\ face_box = <<>>
    /\ loc = NoLocals
    /\ crop_box = <<>>
    /\ sheet = NoSheet
    /\ fs = <<>>
    /\ executed = <<>>
    /\ error = "none"
    /\ raisedAt = "none"
    /\ bgFailed = FALSE
    /\ success = "none"
    /\ exitCode = -1

\* main, lines 311-320: a missing input file exits with 1 before anything is
\* processed; otherwise the default output name is filled in.
MainValidate ==
    /\ pc = "main"
    /\ IF ~args.input_exists
       THEN /\ pc' = "exited"
            /\ exitCode' = 1
            /\ UNCHANGED output_path
       ELSE /\ pc' = "open"
            /\ output_path' = (IF args.output = <<>> THEN DefaultOutput(args.input)
                               ELSE args.output)
            /\ UNCHANGED exitCode
    /\ UNCHANGED <<args, size, srcSize, face_box, loc, crop_box, sheet, fs,
                   executed, error, raisedAt, bgFailed, success>>

\* An exception raised in `stage` leaves the try block: process_photo returns False.
Raises(stage, exc) ==
    /\ executed' = Append(executed, stage)
    /\ error' = exc
    /\ raisedAt' = stage
    /\ success' = "False"
    /\ pc' = AfterRaise(stage, args)

\* `stage` completes: control moves on.
Completes(stage) ==
    /\ executed' = Append(executed, stage)
    /\ pc' = After(stage, args)
    /\ UNCHANGED <<error, raisedAt, success>>

\* Lines 251-259: os.makedirs and Image.open.
OpenImage ==
    /\ pc = "open"
    /\ \/ /\ \E s \in ImageSizes : size' = s /\ srcSize' = s
          /\ Completes("open")
       \/ /\ Raises("open", "Exception")
          /\ UNCHANGED <<size, srcSize>>
    /\ UNCHANGED <<args, output_path, face_box, loc, crop_box, sheet, fs,
                   bgFailed, exitCode>>

\* Line 262: detect_face.
DetectFace ==
    /\ pc = "detect_face"
    /\ \/ /\ \E f \in DetectableFaces(size) : face_box' = f
          /\ Completes("detect_face")
       \/ /\ Raises("detect_face", "Exception")
          /\ UNCHANGED face_box
    /\ UNCHANGED <<args, output_path, size, srcSize, loc, crop_box, sheet, fs,
                   bgFailed, exitCode>>

\* Line 269: remove_background catches its own failure and returns the original
\* image converted to RGBA.
RemoveBackground ==
    /\ pc = "remove_background"
    /\ \E failed \in BOOLEAN : bgFailed' = failed
    /\ Completes("remove_background")
    /\ UNCHANGED <<args, output_path, size, srcSize, face_box, loc, crop_box,
                   sheet, fs, exitCode>>

\* Line 273: crop_and_resize.  The scale-down branch reads face_position_ratio,
\* a name bound nowhere: NameError.  An empty crop is handed to Image.resize,
\* which may or may not accept it.
CropAndResize ==
    /\ pc = "crop_and_resize"
    /\ LET W == size[1]
           H == size[2]
       IN  IF face_box # <<>>
           THEN LET l == FaceLocals(W, H, face_box)
                IN  /\ loc' = l
                    /\ IF Oversized(W, H, l)
                       THEN /\ Raises("crop_and_resize", "NameError")
                            /\ UNCHANGED <<crop_box, size>>
                       ELSE /\ crop_box' = FaceCropBox(l)
                            /\ size' = <<target_width_px, target_height_px>>
                            /\ Completes("crop_and_resize")
           ELSE LET box == CenterCropBox(W, H)
                IN  /\ crop_box' = box
                    /\ UNCHANGED loc
                    /\ IF CropHeight(box) = 0
                       THEN /\ Raises("crop_and_resize", "ZeroDivisionError")
                            /\ UNCHANGED size
                       ELSE \/ /\ size' = <<target_width_px, target_height_px>>
                               /\ Completes("crop_and_resize")
                            \/ /\ CropWidth(box) = 0
                               /\ Raises("crop_and_resize", "ValueError")
                               /\ UNCHANGED size
    /\ UNCHANGED <<args, output_path, srcSize, face_box, sheet, fs, bgFailed,
                   exitCode>>

\* Lines 277 and 281: add_white_background and enhance_image keep the size.
InMemoryStage(stage) ==
    /\ pc = stage
    /\ \/ Completes(stage)
       \/ Raises(stage, "Exception")
    /\ UNCHANGED <<args, output_path, size, srcSize, face_box, loc, crop_box,
                   sheet, fs, bgFailed, exitCode>>

AddWhiteBackground == InMemoryStage("add_white_background")

EnhanceImage == InMemoryStage("enhance_image")

\* Line 284: image.save(output_path, "JPEG", ...).
SavePhoto ==
    /\ pc = "save_photo"
    /\ \/ /\ fs' = Saved(fs, output_path, "photo")
          /\ Completes("save_photo")
       \/ /\ Raises("save_photo", "Exception")
          /\ UNCHANGED fs
    /\ UNCHANGED <<args, output_path, size, srcSize, face_box, loc, crop_box,
                   sheet, bgFailed, exitCode>>

\* Line 290: create_4x6_print(image).
CreatePrint ==
    /\ pc = "create_4x6_print"
    /\ \/ /\ sheet' = Create4x6Print(size)
          /\ Completes("create_4x6_print")
       \/ /\ Raises("create_4x6_print", "Exception")
          /\ UNCHANGED sheet
    /\ UNCHANGED <<args, output_path, size, srcSize, face_box, loc, crop_box,
                   fs, bgFailed, exitCode>>

\* Lines 291-292: the sheet is saved at output_path with '.jpg' replaced.
SavePrint ==
    /\ pc = "save_print"
    /\ \/ /\ fs' = Saved(fs, PrintOutputPath(output_path), "sheet")
          /\ Completes("save_print")
       \/ /\ Raises("save_print", "Exception")
          /\ UNCHANGED fs
    /\ UNCHANGED <<args, output_path, size, srcSize, face_box, loc, crop_box,
                   sheet, bgFailed, exitCode>>

\* Line 296: return True.
ReturnTrue ==
    /\ pc = "return"
    /\ success' = "True"
    /\ pc' = "returned"
    /\ UNCHANGED <<args, output_path, size, srcSize, face_box, loc, crop_box,
                   sheet, fs, executed, error, raisedAt, bgFailed, exitCode>>

\* main, lines 331-336: exit status from process_photo's result.
MainExit ==
    /\ pc = "returned"
    /\ exitCode' = ExitCodeOf(success)
    /\ pc' = "exited"
    /\ UNCHANGED <<args, output_path, size, srcSize, face_box, loc, crop_box,
                   sheet, fs, executed, error, raisedAt, bgFailed, success>>

Next ==
    \/ MainValidate
    \/ OpenImage
    \/ DetectFace
    \/ RemoveBackground
    \/ CropAndResize
    \/ AddWhiteBackground
    \/ EnhanceImage
    \/ SavePhoto
    \/ CreatePrint
    \/ SavePrint
    \/ ReturnTrue
    \/ MainExit

Spec == Init /\ [][Next]_vars

---------------------------------------------------------------------------
\* Vocabulary of the properties.

Entered(stage) == \E i \in 1..Len(executed) : executed[i] = stage

Completed(stage) == Entered(stage) /\ raisedAt # stage

Abs(n) == IF n >= 0 THEN n ELSE -n

\* The box is a non-empty rectangle inside a W x H image.
InsideNonEmpty(box, W, H) ==
    /\ 0 <= box[1] /\ box[1] < box[3] /\ box[3] <= W
    /\ 0 <= box[2] /\ box[2] < box[4] /\ box[4] <= H

\* (x1-x0)/(y1-y0) is within 1% of tw/th.
AspectWithin1Percent(box, tw, th) ==
    100 * Abs((box[3] - box[1]) * th - (box[4] - box[2]) * tw) <= (box[4] - box[2]) * tw

\* The face-anchored branch was taken by crop_and_resize.
FaceCropTaken == Entered("crop_and_resize") /\ face_box # <<>>

\* The center-fallback branch was taken by crop_and_resize.
CenterCropTaken == Entered("crop_and_resize") /\ face_box = <<>>

\* The ideal face-anchored crop, 13h/7 high and 13h/9 wide, exceeds the source.
IdealCropTooLarge ==
    /\ face_box # <<>>
    /\ \/ 13 * face_box[4] > 7 * srcSize[2]
       \/ 13 * face_box[4] > 9 * srcSize[1]

---------------------------------------------------------------------------
\* C1: for every source size and every face box inside it, crop_and_resize
\* computes a crop rectangle with 0 <= x0 < x1 <= W and 0 <= y0 < y1 <= H whose
\* aspect ratio is within 1% of 413/531.
C1_FaceCropInsideWithAspect ==
    FaceCropTaken =>
        /\ crop_box # <<>>
        /\ InsideNonEmpty(crop_box, srcSize[1], srcSize[2])
        /\ AspectWithin1Percent(crop_box, 413, 531)

\* C2: when the ideal face-anchored crop is larger than the source, the
\* scale-down branch returns a crop region inside the source, no error is
\* surfaced and the normalized output is 413x531.
C2_ScaleDownNeverFails ==
    (FaceCropTaken /\ IdealCropTooLarge) =>
        /\ error = "none"
        /\ crop_box # <<>>
        /\ InsideNonEmpty(crop_box, srcSize[1], srcSize[2])
        /\ size = <<413, 531>>

C4_SheetLayout ==
    sheet.built =>
        LET P == sheet.photos
            cw == 413 + 2 * 10
            ch == 531 + 2 * 10
            sx == (1800 - 3 * cw) \div 2
            sy == (1200 - 2 * ch) \div 2
        IN  /\ Len(P) = 6
            /\ \A r \in 0..1, c \in 0..2 :
                 Cardinality({i \in 1..Len(P) : P[i].row = r /\ P[i].col = c}) = 1
            /\ \A i \in 1..Len(P) :
                 /\ P[i].row \in 0..1 /\ P[i].col \in 0..2
                 /\ P[i].w = 413 /\ P[i].h = 531
                 /\ P[i].x = sx + P[i].col * cw + 10
                 /\ P[i].y = sy + P[i].row * ch + 10
                 /\ 0 <= P[i].x /\ P[i].x + P[i].w <= 1800
                 /\ 0 <= P[i].y /\ P[i].y + P[i].h <= 1200
            /\ \A i, j \in 1..Len(P) :
                 i # j =>
                   \/ P[i].x + P[i].w <= P[j].x
                   \/ P[j].x + P[j].w <= P[i].x
                   \/ P[i].y + P[i].h <= P[j].y
                   \/ P[j].y + P[j].h <= P[i].y

\* C4 witness: the sheet has been built from the enhanced 413x531 photo and is
\* about to be saved.
C4_Witness == sheet.built /\ pc = "save_print" /\ size = <<413, 531>>

\* C5 (not settled): create_4x6_print has no fit test and no error path, and
\* with the sizes __init__ and the layout literals fix, the grid always fits the
\* sheet, so the case C5 is about is never reached.
GridFits ==
    /\ total_grid_width <= print_width_px
    /\ total_grid_height <= print_height_px

---------------------------------------------------------------------------
\* The order of stages C6 states, under the run's flags.
ClaimedOrder ==
    <<"open", "detect_face">>
    \o (IF args.no_bg_removal THEN <<>> ELSE <<"remove_background">>)
    \o <<"crop_and_resize", "add_white_background", "enhance_image", "save_photo">>
    \o (IF args.no_print THEN <<>> ELSE <<"create_4x6_print", "save_print">>)

\* C6: in every run of process_photo the stages execute in the fixed order
\* detect face, (optional) remove background, crop and resize, white
\* background, enhance, save primary photo, (optional) build and save print
\* sheet, each at most once; once a stage has raised, it is the last stage to
\* have executed, and process_photo returns False.
C6_OrderAndAbort ==
    /\ Len(executed) <= Len(ClaimedOrder)
    /\ executed = SubSeq(ClaimedOrder, 1, Len(executed))
    /\ error # "none" =>
         /\ executed # <<>>
         /\ executed[Len(executed)] = raisedAt
         /\ pc \in {"returned", "exited"}
         /\ success = "False"
    /\ success = "True" => (error = "none" /\ executed = ClaimedOrder)

\* C6 witness: a stage in the middle of the pipeline raised and the run is over
\* with nothing executed after it.
C6_Witness ==
    /\ raisedAt = "enhance_image"
    /\ pc = "exited"
    /\ ~Entered("save_photo")

\* C7: the program exits with code 1 exactly when the input file is missing or
\* a pipeline stage failed with an exception, and with code 0 otherwise; a run
\* in which no face was detected or background removal failed, and no stage
\* raised, saves the primary photo and exits with 0.
C7_ExitCode ==
    /\ pc # "exited" => exitCode = -1
    /\ pc = "exited" =>
         /\ exitCode \in {0, 1}
         /\ (exitCode = 1) <=> (~args.input_exists \/ error # "none")
         /\ (args.input_exists /\ error = "none") =>
              /\ Completed("save_photo")
              /\ output_path \in DOMAIN fs

\* C7 witness: no face was detected, background removal failed, and the run
\* completed with exit code 0.
C7_Witness ==
    /\ pc = "exited"
    /\ exitCode = 0
    /\ bgFailed
    /\ face_box = <<>>
    /\ Completed("crop_and_resize")

\* C8: once the primary photo has been saved, the print-sheet stage leaves the
\* file at the primary output path unchanged, the sheet being written to a
\* different path.
C8_PrimaryUnaffected ==
    Completed("save_photo") =>
        /\ output_path \in DOMAIN fs
        /\ fs[output_path] = "photo"
        /\ Completed("save_print") =>
             /\ PrintOutputPath(output_path) # output_path
             /\ PrintOutputPath(output_path) \in DOMAIN fs
             /\ fs[PrintOutputPath(output_path)] = "sheet"

\* C9: for every cell the border is a 1-pixel rectangle on the pixels
\* immediately adjacent to the photo rectangle on all four sides; it covers no
\* pixel of any placed photo and stays inside the photo's own cell and the sheet.
C9_BorderAdjacent ==
    sheet.built =>
        \A i \in 1..Len(sheet.borders) :
            LET b == sheet.borders[i]
                p == sheet.photos[i]
                cx == p.x - 10
                cy == p.y - 10
            IN  /\ b.x0 = p.x - 1 /\ b.y0 = p.y - 1
                /\ b.x1 = p.x + p.w /\ b.y1 = p.y + p.h
                /\ \A j \in 1..Len(sheet.photos) :
                     LET q == sheet.photos[j]
                     IN  \/ b.x1 < q.x \/ q.x + q.w <= b.x0
                         \/ b.y1 < q.y \/ q.y + q.h <= b.y0
                         \/ /\ b.x0 < q.x /\ q.x + q.w <= b.x1
                            /\ b.y0 < q.y /\ q.y + q.h <= b.y1
                /\ cx <= b.x0 /\ b.x1 < cx + 413 + 20
                /\ cy <= b.y0 /\ b.y1 < cy + 531 + 20
                /\ 0 <= b.x0 /\ b.x1 < 1800 /\ 0 <= b.y0 /\ b.y1 < 1200

\* The face-anchored crop was computed and the ideal crop fits in the source.
FaceCropFits == FaceCropTaken /\ Completed("crop_and_resize")

\* The framing formula of C10 with the face center at x + cxHalf, y + cyHalf
\* (in 1/Q pixel): photo_height = 1.3h/0.70, photo_width = photo_height*413/531,
\* origin = clamp of (center_x - photo_width/2, center_y - 0.3h - photo_height/2).
FramingFormula(cxHalf, cyHalf) ==
    LET x == face_box[1]
        y == face_box[2]
        h == face_box[4]
    IN  /\ 7 * loc.photo_height = 13 * h * Q
        /\ 531 * loc.photo_width = 413 * loc.photo_height
        /\ 20 * loc.crop_x =
             20 * Clamp((20 * (Q * x + cxHalf) - 10 * loc.photo_width) \div 20,
                        Q * srcSize[1] - loc.photo_width)
        /\ 20 * loc.crop_y =
             20 * Clamp((20 * (Q * y + cyHalf) - 6 * h * Q - 10 * loc.photo_height) \div 20,
                        Q * srcSize[2] - loc.photo_height)

\* The scenario of C10: image 1000x1200, face (400, 300, 200, 250).
InScenario == srcSize = <<1000, 1200>> /\ face_box = <<400, 300, 200, 250>>

\* v (in 1/Q pixel) is `about` tenths/10 pixels: within 0.05 of it.
About(v, tenths) == Abs(20 * v - 2 * tenths * Q) <= Q

\* C10 as stated: the crop origin before integer conversion follows the framing
\* formula with the face center at the exact halves x + w/2, y + h/2; in the
\* scenario the head height is 325, photo_height about 464.3, photo_width about
\* 362.1 and the crop center 75 above the face center.
C10_FramingExactHalves ==
    FaceCropFits =>
        /\ FramingFormula((Q * face_box[3]) \div 2, (Q * face_box[4]) \div 2)
        /\ InScenario =>
             /\ loc.estimated_head_height = 325 * Q
             /\ About(loc.photo_height, 4643)
             /\ About(loc.photo_width, 3621)
             /\ loc.crop_center_y = Q * (300 + 125 - 75)

\* C10 as amended: the face center uses the integer halves x + w // 2 and
\* y + h // 2 (rounded down for odd w or h), and in the scenario photo_width is
\* about 361.1; the rest as stated.
C10_FramingFloorHalves ==
    FaceCropFits =>
        /\ FramingFormula(Q * (face_box[3] \div 2), Q * (face_box[4] \div 2))
        /\ InScenario =>
             /\ loc.estimated_head_height = 325 * Q
             /\ About(loc.photo_height, 4643)
             /\ About(loc.photo_width, 3611)
             /\ loc.crop_center_y = Q * (300 + 125 - 75)

\* C10 witness: a face box of odd width and height whose crop fits and is not
\* moved by the clamp, so the half that is taken decides the origin.
C10_Witness ==
    /\ FaceCropFits
    /\ face_box[3] % 2 = 1 /\ face_box[4] % 2 = 1
    /\ 0 < loc.crop_x /\ loc.crop_x < Q * srcSize[1] - loc.photo_width
    /\ 0 < loc.crop_y /\ loc.crop_y < Q * srcSize[2] - loc.photo_height

=============================================================================
